---- MODULE Spec2Model ----
(***************************************************************************)
(* Model of compile_data.py: the script that starts from the LSOA energy   *)
(* consumption table (df) and attaches one feature after another, each     *)
(* from its own source table, before writing compiled_data.csv.            *)
(*                                                                         *)
(* The script is a straight line of sections; each section is one action   *)
(* and pc names the section that runs next.  An uncaught exception ends    *)
(* the script: err holds the exception's class, pc stays at the section    *)
(* that raised it and no section runs afterwards.                          *)
(*                                                                         *)
(* Numbers: counts are integers; every quotient the script computes is     *)
(* kept as an exact fraction <<n, d>>.  A float division by zero in pandas *)
(* gives NaN (0/0) or inf (n/0), written <<0, 0>> and <<1, 0>>; a division *)
(* by zero between two Python numbers raises ZeroDivisionError.  Rounding  *)
(* of floats is not modelled.                                              *)
(***************************************************************************)
EXTENDS Integers, Sequences, FiniteSets, TLC

VARIABLES
    pc,         \* the section of the script that runs next
    df,         \* the accumulating table: a sequence of rows (records)
    temp_dict,  \* the dictionary of temperature measurements (ordered)
    source,     \* the raw source table most recently read
    err,        \* class of the exception that ended the run, or "none"
    out         \* the files written: <<>> or <<table>>

vars == <<pc, df, temp_dict, source, err, out>>

(***************************************************************************)
(* Bounds of the model                                                     *)
(***************************************************************************)
MaxLon == 3         \* measurement / query longitudes are 0..MaxLon
MaxObs == 2         \* temperature observations in the climate file
MaxSrcRows == 2     \* rows of a keyed source table (income, voting, ...)
MaxHouseholdRows == 2   \* rows of the household size-by-rooms table
MaxCount == 2       \* largest count in a building-type cell
MaxBuckets == 2     \* build-period buckets of a row that are not "0"

(***************************************************************************)
(* Generic helpers                                                         *)
(***************************************************************************)
SeqsUpTo(S, n) == UNION {[1..k -> S] : k \in 0..n}

Abs(x) == IF x < 0 THEN -x ELSE x

RECURSIVE Concat(_)
Concat(ss) == IF ss = <<>> THEN <<>> ELSE Head(ss) \o Concat(Tail(ss))

RECURSIVE SumSeq(_)
SumSeq(s) == IF s = <<>> THEN 0 ELSE Head(s) + SumSeq(Tail(s))

\* float('nan'): the missing marker of a numeric column
NaN == <<0, 0>>
\* the missing marker of an object (text / boolean) column
NA == "NaN"

RECURSIVE GCD(_, _)
GCD(a, b) == IF b = 0 THEN a ELSE GCD(b, a % b)

\* the fraction n/d (d > 0) in lowest terms: one float, one representation
Frac(n, d) == LET g == GCD(Abs(n), d) IN <<n \div g, d \div g>>

\* value equality of two finite fractions
RatEq(a, b) == a[1] * b[2] = b[1] * a[2]
\* a <= b for two fractions with positive denominators
RatLeq(a, b) == a[1] * b[2] <= b[1] * a[2]
IsFinite(a) == a[2] > 0

\* float / float as pandas computes it on a column (no exception)
FloatDiv(n, d) ==
    IF d # 0 THEN Frac(n, d)
    ELSE IF n = 0 THEN NaN
    ELSE <<1, 0>>

(***************************************************************************)
(* The main dataset (lines 64-97)                                          *)
(***************************************************************************)
\* the geography of the modelled areas: LSOA -> MSOA -> LA
LSOAs == <<"L1", "L2", "L3">>
MSOAOf == [l \in {"L1", "L2", "L3"} |->
              IF l = "L3" THEN "M2" ELSE "M1"]
LAOf == [m \in {"M1", "M2"} |-> "A1"]

\* one row of the main dataset after the column selection and renaming
MainRow(lsoa, lon, elec, total) ==
    [LA_name |-> "name", LA |-> LAOf[MSOAOf[lsoa]],
     MSOA_name |-> "name", MSOA |-> MSOAOf[lsoa],
     LSOA_name |-> "name", LSOA |-> lsoa,
     Latitude |-> 51, Longitude |-> lon,
     elec_consumption |-> elec, total_consumption |-> total,
     energy_consumption_per_person |-> 100]

(***************************************************************************)
(* Climate / temperature data (lines 112-157)                              *)
(***************************************************************************)
\* the measurement points: on one parallel, so that the geodesic distance
\* between two of them grows with the difference of their longitudes and
\* two points at the same difference on either side are at equal distance
Locations == {<<51, lon>> : lon \in 0..MaxLon}
TempValues == {-2, 0, 10, 12}

\* geopy.distance.geodesic, on points of one parallel
geodesic(p, q) == Abs(p[2] - q[2])

\* the validity test with a fault: a reading of zero kept
ValidTempLoose(v) == v >= 0

\* the validity test of line 129
ValidTemp(v) == v > 0

\* d[k] = v on an insertion-ordered dict kept as a sequence of <<k, v>>:
\* a new key goes last, an existing key keeps its place and takes v
DictPut(d, k, v) ==
    IF \E i \in 1..Len(d) : d[i][1] = k
    THEN [i \in 1..Len(d) |-> IF d[i][1] = k THEN <<k, v>> ELSE d[i]]
    ELSE Append(d, <<k, v>>)

RECURSIVE DictFromPairs(_, _)
DictFromPairs(d, pairs) ==
    IF pairs = <<>> THEN d
    ELSE DictFromPairs(DictPut(d, Head(pairs)[1], Head(pairs)[2]), Tail(pairs))

\* lines 127-130: observations is the zip of lats, longs and ts
build_temp_dict(observations) ==
    LET zipped == [i \in 1..Len(observations) |->
                      <<<<observations[i].lat, observations[i].long>>,
                        observations[i].t>>]
        all == DictFromPairs(<<>>, zipped)
    IN  SelectSeq(all, LAMBDA kv : ValidTemp(kv[2]))

\* min(keys, key=...): the first key, in dict order, of least distance
MinKeyIndex(d, this_point) ==
    CHOOSE i \in 1..Len(d) :
        /\ \A j \in 1..Len(d) :
              geodesic(this_point, d[i][1]) <= geodesic(this_point, d[j][1])
        /\ \A j \in 1..(i - 1) :
              geodesic(this_point, d[j][1]) > geodesic(this_point, d[i][1])

\* the lookup with a fault: an empty dictionary answers a default value
find_closest_or_default(d, this_point) ==
    IF d = <<>> THEN [ok |-> TRUE, val |-> 0]
    ELSE [ok |-> TRUE, val |-> d[MinKeyIndex(d, this_point)][2]]

\* lines 133-149; min() of an empty sequence raises ValueError
find_closest_temp_measurement(d, this_point) ==
    IF d = <<>> THEN [ok |-> FALSE, val |-> 0]
    ELSE [ok |-> TRUE, val |-> d[MinKeyIndex(d, this_point)][2]]

Observations == [lat : {51}, long : 0..MaxLon, t : TempValues]

\* lines 112-130
ReadClimate(observations) ==
    /\ pc = "climate"
    /\ err = "none"
    /\ source' = observations
    /\ temp_dict' = build_temp_dict(observations)
    /\ pc' = "temperature"
    /\ UNCHANGED <<df, err, out>>

\* lines 155-156: the coords column, then one lookup per row; the result
\* is the table and the exception raised, if any
attach_temperature(table, d) ==
    LET coords == [i \in 1..Len(table) |->
                      <<table[i].Latitude, table[i].Longitude>>]
        found == [i \in 1..Len(table) |->
                     find_closest_temp_measurement(d, coords[i])]
    IN  IF \E i \in 1..Len(table) : ~found[i].ok
        THEN [err |-> "ValueError",
              df |-> [i \in 1..Len(table) |->
                         table[i] @@ [coords |-> coords[i]]]]
        ELSE [err |-> "none",
              df |-> [i \in 1..Len(table) |->
                         table[i] @@ [coords |-> coords[i],
                                      temperature |-> found[i].val]]]

\* lines 155-157
AttachTemperature ==
    /\ pc = "temperature"
    /\ err = "none"
    /\ LET r == attach_temperature(df, temp_dict)
       IN  /\ df' = r.df
           /\ err' = r.err
           /\ pc' = IF r.err = "none" THEN "energy_cost" ELSE pc
    /\ UNCHANGED <<temp_dict, source, out>>

(***************************************************************************)
(* Energy cost (lines 159-170)                                             *)
(***************************************************************************)
RatAdd(a, b) == Frac(a[1] * b[2] + b[1] * a[2], a[2] * b[2])
RatSub(a, b) == Frac(a[1] * b[2] - b[1] * a[2], a[2] * b[2])
RatMul(a, b) == Frac(a[1] * b[1], a[2] * b[2])

\* lines 55-57
GAS_PRICE_PER_KWH == <<33, 10>>
ELECTRIC_PRICE_PER_KWH == <<190, 10>>
POLITICALLY_GREEN_THRESHOLD == <<1, 10>>

\* line 168, on one float x; inf and nan both end in nan (inf - inf)
energy_cost(x) ==
    IF ~IsFinite(x) THEN NaN
    ELSE RatAdd(RatMul(ELECTRIC_PRICE_PER_KWH, x),
                RatMul(GAS_PRICE_PER_KWH, RatSub(<<1, 1>>, x)))

\* lines 163-169
attach_energy_cost(table) ==
    [i \in 1..Len(table) |->
        LET x == FloatDiv(table[i].elec_consumption,
                          table[i].total_consumption)
        IN  table[i] @@ [pct_electric |-> x, energy_cost |-> energy_cost(x)]]

AttachEnergyCost ==
    /\ pc = "energy_cost"
    /\ err = "none"
    /\ df' = attach_energy_cost(df)
    /\ pc' = "income"
    /\ UNCHANGED <<temp_dict, source, err, out>>

(***************************************************************************)
(* DataFrame.merge(right, on=key, how="left")                              *)
(***************************************************************************)
\* every row of left, in order; once per matching row of right, in the
\* order of right, or once with the columns of right missing (fill)
merge(left, right, on, fill) ==
    Concat([i \in 1..Len(left) |->
        LET matches == SelectSeq(right, LAMBDA r : r[on] = left[i][on])
        IN  IF matches = <<>> THEN <<left[i] @@ fill>>
            ELSE [j \in 1..Len(matches) |-> left[i] @@ matches[j]]])

(***************************************************************************)
(* Income data, by MSOA (lines 172-184)                                    *)
(***************************************************************************)
\* attach_income with a fault: after the merge only the first row of each
\* LSOA is kept
attach_income_keep_first(table, income_data) ==
    LET merged == merge(table, income_data, "MSOA", [net_income |-> NA])
        first == {i \in 1..Len(merged) :
                     \A j \in 1..(i - 1) : merged[j].LSOA # merged[i].LSOA}
    IN  SelectSeq(merged, LAMBDA r :
            \E i \in first : merged[i] = r)

\* lines 177-183; income_data holds the two selected columns, renamed
attach_income(table, income_data) ==
    merge(table, income_data, "MSOA", [net_income |-> NA])

AttachIncome(income_data) ==
    /\ pc = "income"
    /\ err = "none"
    /\ source' = income_data
    /\ df' = attach_income(df, income_data)
    /\ pc' = "voting"
    /\ UNCHANGED <<temp_dict, err, out>>

(***************************************************************************)
(* Voting data, by local authority (lines 186-197)                         *)
(***************************************************************************)
\* line 193 on one float: a comparison with nan is False, inf is above
green_council(pct_green) ==
    IF pct_green = NaN THEN "False"
    ELSE IF ~IsFinite(pct_green) THEN "True"
    ELSE IF RatLeq(POLITICALLY_GREEN_THRESHOLD, pct_green) THEN "True"
    ELSE "False"

\* lines 192-197; a row of voting_data is [LA, Green, Total]
attach_voting(table, voting_data) ==
    LET flagged == [i \in 1..Len(voting_data) |->
                      [LA |-> voting_data[i].LA,
                       politically_green |->
                           green_council(FloatDiv(voting_data[i].Green,
                                                  voting_data[i].Total))]]
    IN  merge(table, flagged, "LA", [politically_green |-> NA])

AttachVoting(voting_data) ==
    /\ pc = "voting"
    /\ err = "none"
    /\ source' = voting_data
    /\ df' = attach_voting(df, voting_data)
    /\ pc' = "economic_activity"
    /\ UNCHANGED <<temp_dict, err, out>>

(***************************************************************************)
(* Economic activity, by local authority (lines 199-212)                   *)
(***************************************************************************)
attach_economic_activity(table, economic_activity) ==
    merge(table, economic_activity, "LA", [pct_economically_active |-> NaN])

AttachEconomicActivity(economic_activity) ==
    /\ pc = "economic_activity"
    /\ err = "none"
    /\ source' = economic_activity
    /\ df' = attach_economic_activity(df, economic_activity)
    /\ pc' = "households"
    /\ UNCHANGED <<temp_dict, err, out>>

(***************************************************************************)
(* Cells of a count column as read_csv gives them: a number, or the text   *)
(* of the cell when the column holds a cell that is not a number           *)
(***************************************************************************)
Num(n) == <<"int", n>>
Text(t) == <<"str", t>>
IsNum(c) == c[1] = "int"

\* DataFrame.replace("-", "0") on one cell (lines 284 and 332): the cell
\* becomes the numeral "0"
replace_dash(c) == IF c = Text("-") THEN Num(0) ELSE c

\* int(c) / astype(int) on one cell: a numeral converts, other text raises
\* ValueError
CanInt(c) == IsNum(c)
ToInt(c) == c[2]

(***************************************************************************)
(* Home size and occupancy, by LSOA (lines 214-260)                        *)
(***************************************************************************)
\* the area codes of the model, in the order groupby sorts them
AreaOrder == <<"L1", "L2", "L3", "L9">>

RatDivInt(x, n) ==
    IF n # 0 THEN Frac(x[1], x[2] * n)
    ELSE IF x[1] = 0 THEN NaN
    ELSE <<1, 0>>

RECURSIVE RatSum(_)
RatSum(s) == IF s = <<>> THEN <<0, 1>> ELSE RatAdd(Head(s), RatSum(Tail(s)))

\* home_size with a fault: the plain mean of the room codes, each row
\* counted once
home_size_unweighted(rows) ==
    FloatDiv(SumSeq([i \in 1..Len(rows) |-> rows[i].rooms_code]), Len(rows))

\* lines 236-239, 244-251 for the rows of one LSOA
home_size(rows) ==
    LET home_size_x_obs == [i \in 1..Len(rows) |->
                              rows[i].rooms_code * rows[i].Observation[2]]
        Observation == [i \in 1..Len(rows) |-> rows[i].Observation[2]]
    IN  FloatDiv(SumSeq(home_size_x_obs), SumSeq(Observation))

\* lines 225-231, 244-252 for the rows of one LSOA
pct_home_occupancy(rows) ==
    LET pct == [i \in 1..Len(rows) |->
                   Frac(rows[i].household_size_code, rows[i].rooms_code)]
        pct_home_occupancy_x_obs ==
            [i \in 1..Len(rows) |->
                RatMul(pct[i], <<rows[i].Observation[2], 1>>)]
        Observation == [i \in 1..Len(rows) |-> rows[i].Observation[2]]
    IN  RatDivInt(RatSum(pct_home_occupancy_x_obs), SumSeq(Observation))

\* lines 244-258: one row per LSOA of the table, sorted by LSOA
totals(households) ==
    LET groups == SelectSeq(AreaOrder, LAMBDA a :
                     \E i \in 1..Len(households) : households[i].LSOA = a)
    IN  [g \in 1..Len(groups) |->
            LET rows == SelectSeq(households,
                                  LAMBDA r : r.LSOA = groups[g])
            IN  [LSOA |-> groups[g],
                 home_size |-> home_size(rows),
                 pct_home_occupancy |-> pct_home_occupancy(rows)]]

\* lines 219-260; a float times a text cell raises TypeError (line 229)
attach_households(table, households) ==
    IF \E i \in 1..Len(households) : ~IsNum(households[i].Observation)
    THEN [err |-> "TypeError", df |-> table]
    ELSE [err |-> "none",
          df |-> merge(table, totals(households), "LSOA",
                       [home_size |-> NaN, pct_home_occupancy |-> NaN])]

AttachHouseholds(households) ==
    /\ pc = "households"
    /\ err = "none"
    /\ source' = households
    /\ LET r == attach_households(df, households)
       IN  /\ df' = r.df
           /\ err' = r.err
           /\ pc' = IF r.err = "none" THEN "building_type" ELSE pc
    /\ UNCHANGED <<temp_dict, out>>

(***************************************************************************)
(* Building type, by LSOA (lines 262-319)                                  *)
(***************************************************************************)
\* lines 289-295, in the order of the dictionary
TypeColumns == <<"bungalow_total", "flat_mais_total", "house_terraced_total",
                 "house_semi_total", "house_detached_total">>

exposed_surfaces_per_type ==
    [c \in {TypeColumns[k] : k \in 1..Len(TypeColumns)} |->
        CASE c = "bungalow_total" -> 5
          [] c = "flat_mais_total" -> 2
          [] c = "house_terraced_total" -> 3
          [] c = "house_semi_total" -> 4
          [] c = "house_detached_total" -> 5]

\* lines 270-272 and 329-331
filter_LSOA_All(table) ==
    SelectSeq(table, LAMBDA r : r.geography = "LSOA" /\ r.band = "All")

\* lines 305-309 for one row, the counts converted
total_exposed_surfaces(row) ==
    SumSeq([k \in 1..Len(TypeColumns) |->
               ToInt(row[TypeColumns[k]]) * exposed_surfaces_per_type[TypeColumns[k]]])

\* x / y between two Python integers (lines 312 and 375)
divide(x, y) ==
    IF y = 0 THEN [err |-> "ZeroDivisionError", val |-> NaN]
    ELSE [err |-> "none", val |-> Frac(x, y)]

\* the exception of the first row, in order, that raises one
FirstError(errs) ==
    IF \A i \in 1..Len(errs) : errs[i] = "none" THEN "none"
    ELSE errs[CHOOSE i \in 1..Len(errs) :
                 /\ errs[i] # "none"
                 /\ \A j \in 1..(i - 1) : errs[j] = "none"]

\* lines 266-319; a row of building_type is [geography, band, ecode, the
\* five count columns, all_properties]
attach_building_type(table, building_type) ==
    LET kept == filter_LSOA_All(building_type)
        replaced == [i \in 1..Len(kept) |->
                        [c \in DOMAIN kept[i] |->
                            IF c \in {"geography", "band", "ecode"}
                            THEN kept[i][c] ELSE replace_dash(kept[i][c])]]
        quotient == [i \in 1..Len(replaced) |->
                        IF ~CanInt(replaced[i].all_properties)
                        THEN [err |-> "ValueError", val |-> NaN]
                        ELSE divide(total_exposed_surfaces(replaced[i]),
                                    ToInt(replaced[i].all_properties))]
        feature == [i \in 1..Len(replaced) |->
                       [LSOA |-> replaced[i].ecode,
                        home_exposed_surfaces |-> quotient[i].val]]
    IN  IF \E i \in 1..Len(replaced) : \E k \in 1..Len(TypeColumns) :
               ~CanInt(replaced[i][TypeColumns[k]])
        THEN [err |-> "ValueError", df |-> table]
        ELSE IF FirstError([i \in 1..Len(replaced) |-> quotient[i].err]) # "none"
        THEN [err |-> FirstError([i \in 1..Len(replaced) |-> quotient[i].err]),
              df |-> table]
        ELSE [err |-> "none",
              df |-> merge(table, feature, "LSOA",
                           [home_exposed_surfaces |-> NaN])]

AttachBuildingType(building_type) ==
    /\ pc = "building_type"
    /\ err = "none"
    /\ source' = building_type
    /\ LET r == attach_building_type(df, building_type)
       IN  /\ df' = r.df
           /\ err' = r.err
           /\ pc' = IF r.err = "none" THEN "building_age" ELSE pc
    /\ UNCHANGED <<temp_dict, out>>

(***************************************************************************)
(* Building age, by LSOA (lines 321-381)                                   *)
(***************************************************************************)
\* the keys of build_dates, in the order of the dictionary
Buckets == <<"bp_pre_1900", "bp_1900_1918", "bp_1919_1929", "bp_1930_1939",
             "bp_1945_1954", "bp_1955_1964", "bp_1965_1972", "bp_1973_1982",
             "bp_1983_1992", "bp_1993_1999", "bp_2000_2008", "bp_2009",
             "bp_2010", "bp_2011", "bp_2012", "bp_2013", "bp_2014", "bp_2015",
             "bp_2016", "bp_2017", "bp_2018", "bp_2019", "bp_2020", "bp_2021",
             "bp_2022_2023", "bp_unkw">>

BucketYears == <<1900, 1910, 1925, 1935, 1950, 1960, 1969, 1978, 1988, 1996,
                 2004, 2009, 2010, 2011, 2012, 2013, 2014, 2015, 2016, 2017,
                 2018, 2019, 2020, 2021, 2021, 1900>>

BucketSet == {Buckets[k] : k \in 1..Len(Buckets)}

\* build_dates with a fault: the unknown bucket taken as built in 2021
build_dates_unknown_new ==
    [b \in BucketSet |->
        IF b = "bp_unkw" THEN 2021
        ELSE BucketYears[CHOOSE k \in 1..Len(Buckets) : Buckets[k] = b]]

\* lines 337-364
build_dates ==
    [b \in BucketSet |->
        BucketYears[CHOOSE k \in 1..Len(Buckets) : Buckets[k] = b]]

\* line 372 for one row, the counts converted
build_year(row) ==
    SumSeq([k \in 1..Len(Buckets) |->
               ToInt(row.bp[Buckets[k]]) * build_dates[Buckets[k]]])

\* line 374 for one row
bucket_total(row) ==
    SumSeq([k \in 1..Len(Buckets) |-> ToInt(row.bp[Buckets[k]])])

\* lines 325-381; a row of building_age is [geography, band, ecode, bp],
\* bp the cells of the build-period columns
attach_building_age(table, building_age) ==
    LET kept == filter_LSOA_All(building_age)
        replaced == [i \in 1..Len(kept) |->
                        [kept[i] EXCEPT !.bp =
                            [b \in BucketSet |-> replace_dash(kept[i].bp[b])]]]
        quotient == [i \in 1..Len(replaced) |->
                        divide(build_year(replaced[i]),
                               bucket_total(replaced[i]))]
        feature == [i \in 1..Len(replaced) |->
                       [LSOA |-> replaced[i].ecode,
                        home_age |-> IF quotient[i].err = "none"
                                     THEN RatSub(<<2021, 1>>, quotient[i].val)
                                     ELSE NaN]]
    IN  IF \E i \in 1..Len(replaced) : \E b \in BucketSet :
               ~CanInt(replaced[i].bp[b])
        THEN [err |-> "ValueError", df |-> table]
        ELSE IF FirstError([i \in 1..Len(replaced) |-> quotient[i].err]) # "none"
        THEN [err |-> FirstError([i \in 1..Len(replaced) |-> quotient[i].err]),
              df |-> table]
        ELSE [err |-> "none",
              df |-> merge(table, feature, "LSOA", [home_age |-> NaN])]

AttachBuildingAge(building_age) ==
    /\ pc = "building_age"
    /\ err = "none"
    /\ source' = building_age
    /\ LET r == attach_building_age(df, building_age)
       IN  /\ df' = r.df
           /\ err' = r.err
           /\ pc' = IF r.err = "none" THEN "write" ELSE pc
    /\ UNCHANGED <<temp_dict, out>>

(***************************************************************************)
(* Write clean results (lines 383-402)                                     *)
(***************************************************************************)
\* final_columns with a fault: the target column first, not last
final_columns_target_first ==
    <<"energy_consumption_per_person", "LA", "MSOA", "LSOA", "temperature",
      "energy_cost", "net_income", "politically_green",
      "pct_economically_active", "home_size", "pct_home_occupancy",
      "home_exposed_surfaces", "home_age">>

\* lines 385-399
final_columns == <<"LA", "MSOA", "LSOA", "temperature", "energy_cost",
                   "net_income", "politically_green",
                   "pct_economically_active", "home_size",
                   "pct_home_occupancy", "home_exposed_surfaces", "home_age",
                   "energy_consumption_per_person">>

FinalColumnSet == {final_columns[k] : k \in 1..Len(final_columns)}

\* line 400: df[final_columns]
project(table) ==
    [i \in 1..Len(table) |-> [c \in FinalColumnSet |-> table[i][c]]]

\* line 401: the header line and one line per row, the cells in the order
\* of the columns
to_csv(table, columns) ==
    [header |-> columns,
     lines |-> [i \in 1..Len(table) |->
                   [k \in 1..Len(columns) |-> table[i][columns[k]]]]]

\* the write with a fault: also done when a section has raised, with the
\* declared columns the table has so far
WriteResultsAlsoOnFailure ==
    \/ /\ pc = "write"
       /\ err = "none"
       /\ df' = project(df)
       /\ out' = <<to_csv(project(df), final_columns)>>
       /\ pc' = "done"
       /\ UNCHANGED <<temp_dict, source, err>>
    \/ /\ err # "none"
       /\ out = <<>>
       /\ out' = <<to_csv(df, SelectSeq(final_columns,
                       LAMBDA c : \A i \in 1..Len(df) : c \in DOMAIN df[i]))>>
       /\ UNCHANGED <<pc, df, temp_dict, source, err>>

\* lines 400-401
WriteResults ==
    /\ pc = "write"
    /\ err = "none"
    /\ df' = project(df)
    /\ out' = <<to_csv(project(df), final_columns)>>
    /\ pc' = "done"
    /\ UNCHANGED <<temp_dict, source, err>>

\* lines 65-97: the main dataset, its columns selected and renamed
ReadMain(main) ==
    /\ pc = "main"
    /\ err = "none"
    /\ df' = main
    /\ pc' = "climate"
    /\ UNCHANGED <<temp_dict, source, err, out>>

(***************************************************************************)
(* A source that cannot be loaded.  Each of these sections opens its file  *)
(* first (lines 65, 117, 177, 190, 202, 219, 266, 325) and then picks the  *)
(* columns it expects; neither exception is caught anywhere.               *)
(***************************************************************************)
FileSections == {"main", "climate", "income", "voting", "economic_activity",
                 "households", "building_type", "building_age"}

\* the exception of a file without an expected column: a column picked by
\* name raises KeyError; the two council-tax tables are first filtered by
\* attribute (lines 271 and 330), which raises AttributeError
SchemaErrors(section) ==
    IF section \in {"building_type", "building_age"}
    THEN {"AttributeError", "KeyError"}
    ELSE {"KeyError"}

\* the file of the section is absent: pd.read_csv / Dataset raises
MissingSource ==
    /\ pc \in FileSections
    /\ err = "none"
    /\ err' = "FileNotFoundError"
    /\ UNCHANGED <<pc, df, temp_dict, source, out>>

\* the file of a section after the first lacks an expected column
SchemaMismatch(e) ==
    /\ pc \in FileSections \ {"main"}
    /\ err = "none"
    /\ e \in SchemaErrors(pc)
    /\ err' = e
    /\ UNCHANGED <<pc, df, temp_dict, source, out>>

\* the main dataset lacks column c: line 65 has assigned the table as read
\* to df when the selection of lines 69-83 raises
ReadMainSchemaMismatch(main, c) ==
    /\ pc = "main"
    /\ err = "none"
    /\ df' = [i \in 1..Len(main) |->
                 [k \in DOMAIN main[i] \ {c} |-> main[i][k]]]
    /\ err' = "KeyError"
    /\ UNCHANGED <<pc, temp_dict, source, out>>

(***************************************************************************)
(* The whole script, on small source files                                 *)
(***************************************************************************)
\* the main datasets of the model: the first n areas, each LSOA once
MainTables ==
    {[i \in 1..n |-> MainRow(LSOAs[i], i - 1, 3 - i, 6 - 2 * i)] : n \in 1..Len(LSOAs)}

SmallClimate ==
    SeqsUpTo([lat : {51}, long : {0, MaxLon}, t : {0, 10}], 1)
SmallIncome ==
    SeqsUpTo([MSOA : {"M1", "M9"}, net_income : {"28,000", "31,500"}],
             MaxSrcRows)
SmallVoting ==
    SeqsUpTo([LA : {"A1"}, Green : {1, 3}, Total : {10, 20}], 1)
SmallEconomicActivity ==
    SeqsUpTo([LA : {"A1", "A9"}, pct_economically_active : {<<553, 10>>}], 1)
SmallHouseholds ==
    SeqsUpTo([LSOA : {"L1"}, household_size_code : {2}, rooms_code : {4},
              Observation : {Num(0), Num(10), Text("-")}], 1)
SmallBuildingType ==
    SeqsUpTo([geography : {"LSOA", "MSOA"}, band : {"All"}, ecode : {"L1"},
              bungalow_total : {Num(0)},
              flat_mais_total : {Num(1), Text("-")},
              house_terraced_total : {Num(0)},
              house_semi_total : {Num(0)},
              house_detached_total : {Num(0)},
              all_properties : {Num(0), Num(2)}], 1)
SmallBuildingAge ==
    SeqsUpTo({[geography |-> "LSOA", band |-> b, ecode |-> "L1",
               bp |-> [k \in BucketSet |->
                          IF k = "bp_pre_1900" THEN old
                          ELSE IF k = "bp_2021" THEN new
                          ELSE Num(0)]] :
                 b \in {"All", "A"}, old \in {Num(0), Num(1), Text("-")},
                 new \in {Num(0), Num(1)}}, 1)

Init ==
    /\ pc = "main"
    /\ df = <<>>
    /\ temp_dict = <<>>
    /\ source = <<>>
    /\ err = "none"
    /\ out = <<>>

Next ==
    \/ \E main \in MainTables : ReadMain(main)
    \/ \E observations \in SmallClimate : ReadClimate(observations)
    \/ AttachTemperature
    \/ AttachEnergyCost
    \/ \E income_data \in SmallIncome : AttachIncome(income_data)
    \/ \E voting_data \in SmallVoting : AttachVoting(voting_data)
    \/ \E economic_activity \in SmallEconomicActivity :
          AttachEconomicActivity(economic_activity)
    \/ \E households \in SmallHouseholds : AttachHouseholds(households)
    \/ \E building_type \in SmallBuildingType :
          AttachBuildingType(building_type)
    \/ \E building_age \in SmallBuildingAge : AttachBuildingAge(building_age)
    \/ WriteResults
    \/ MissingSource
    \/ \E e \in {"AttributeError", "KeyError"} : SchemaMismatch(e)
    \/ \E main \in MainTables : \E c \in {"LSOA", "Latitude"} :
          ReadMainSchemaMismatch(main, c)

Spec == Init /\ [][Next]_vars

(***************************************************************************)
(* The nearest-measurement lookup on its own: one area at every query      *)
(* point, every climate file of up to MaxObs observations                  *)
(***************************************************************************)
GeoTables == {<<>>} \cup {<<MainRow("L1", lon, 1, 2)>> : lon \in 0..MaxLon}

InitGeo ==
    /\ pc = "climate"
    /\ df \in GeoTables
    /\ temp_dict = <<>>
    /\ source = <<>>
    /\ err = "none"
    /\ out = <<>>

NextGeo ==
    \/ \E observations \in SeqsUpTo(Observations, MaxObs) :
          ReadClimate(observations)
    \/ AttachTemperature

SpecGeo == InitGeo /\ [][NextGeo]_vars

(***************************************************************************)
(* The categorical aggregations on their own.  Each starts where its       *)
(* section of the script starts, two areas in the table and the earlier    *)
(* features attached from one measurement and empty keyed tables.          *)
(***************************************************************************)
PreparedDict == build_temp_dict(<<[lat |-> 51, long |-> 0, t |-> 10]>>)

BeforeHouseholds ==
    attach_economic_activity(
        attach_voting(
            attach_income(
                attach_energy_cost(
                    attach_temperature(<<MainRow("L1", 0, 1, 2),
                                         MainRow("L2", 1, 1, 4)>>,
                                       PreparedDict).df),
                <<>>),
            <<>>),
        <<>>)

HouseholdRows ==
    [LSOA : {"L1", "L9"}, household_size_code : {0, 2}, rooms_code : {3, 4},
     Observation : {Num(0), Num(5), Num(10), Text("-")}]

InitHouseholds ==
    /\ pc = "households"
    /\ df = BeforeHouseholds
    /\ temp_dict = PreparedDict
    /\ source = <<>>
    /\ err = "none"
    /\ out = <<>>

NextHouseholds ==
    \E households \in SeqsUpTo(HouseholdRows, MaxHouseholdRows) :
        AttachHouseholds(households)

SpecHouseholds == InitHouseholds /\ [][NextHouseholds]_vars

BeforeBuildingType == attach_households(BeforeHouseholds, <<>>).df

CountCells == {Num(n) : n \in 0..MaxCount} \cup {Text("-")}

BuildingTypeRows ==
    [geography : {"LSOA"}, band : {"All"}, ecode : {"L1"},
     bungalow_total : CountCells, flat_mais_total : CountCells,
     house_terraced_total : CountCells, house_semi_total : CountCells,
     house_detached_total : CountCells,
     all_properties : {Num(n) : n \in 0..(5 * MaxCount + 1)}
                        \cup {Text("-"), Text("c")}]

InitBuildingType ==
    /\ pc = "building_type"
    /\ df = BeforeBuildingType
    /\ temp_dict = PreparedDict
    /\ source = <<>>
    /\ err = "none"
    /\ out = <<>>

NextBuildingType ==
    \E row \in BuildingTypeRows : AttachBuildingType(<<row>>)

SpecBuildingType == InitBuildingType /\ [][NextBuildingType]_vars

BeforeBuildingAge == attach_building_type(BeforeBuildingType, <<>>).df

RECURSIVE SubsetsUpTo(_, _)
SubsetsUpTo(S, k) ==
    IF k = 0 THEN {{}}
    ELSE LET P == SubsetsUpTo(S, k - 1)
         IN  P \cup {p \cup {x} : p \in P, x \in S}

\* the buckets that hold a cell other than 0 in some row of the model: the
\* oldest, the newest, the unknown one and some in between
ActiveBuckets == {"bp_pre_1900", "bp_1900_1918", "bp_1945_1954",
                  "bp_1993_1999", "bp_2009", "bp_2021", "bp_2022_2023",
                  "bp_unkw"}

\* the rows of the build-period table with at most MaxBuckets cells that
\* are not 0
BuildingAgeRows ==
    UNION {{[geography |-> "LSOA", band |-> "All", ecode |-> "L1",
             bp |-> [b \in BucketSet |-> IF b \in B THEN f[b] ELSE Num(0)]] :
               f \in [B -> {Num(1), Num(3), Text("-")}]} :
           B \in SubsetsUpTo(ActiveBuckets, MaxBuckets)}

InitBuildingAge ==
    /\ pc = "building_age"
    /\ df = BeforeBuildingAge
    /\ temp_dict = PreparedDict
    /\ source = <<>>
    /\ err = "none"
    /\ out = <<>>

NextBuildingAge ==
    \E row \in BuildingAgeRows : AttachBuildingAge(<<row>>)

SpecBuildingAge == InitBuildingAge /\ [][NextBuildingAge]_vars

(***************************************************************************)
(* The attaches as operations on the table, applied in any order: the      *)
(* source files are fixed at the start (source holds them all, with the    *)
(* main dataset) and each feature is attached once.                        *)
(***************************************************************************)
\* the attaches, in the order of the script
ScriptOrder == <<"temperature", "energy_cost", "income", "voting",
                 "economic_activity", "households", "building_type",
                 "building_age">>

Features == {ScriptOrder[k] : k \in 1..Len(ScriptOrder)}

\* the columns each attach adds to df
OwnColumns(f) ==
    CASE f = "temperature" -> {"coords", "temperature"}
      [] f = "energy_cost" -> {"pct_electric", "energy_cost"}
      [] f = "income" -> {"net_income"}
      [] f = "voting" -> {"politically_green"}
      [] f = "economic_activity" -> {"pct_economically_active"}
      [] f = "households" -> {"home_size", "pct_home_occupancy"}
      [] f = "building_type" -> {"home_exposed_surfaces"}
      [] f = "building_age" -> {"home_age"}

\* the section of feature f run on table with the source files: the table
\* it leaves and the exception it raises, if any
Apply(f, table, files) ==
    CASE f = "temperature" ->
            attach_temperature(table, build_temp_dict(files.climate))
      [] f = "energy_cost" ->
            [err |-> "none", df |-> attach_energy_cost(table)]
      [] f = "income" ->
            [err |-> "none", df |-> attach_income(table, files.income)]
      [] f = "voting" ->
            [err |-> "none", df |-> attach_voting(table, files.voting)]
      [] f = "economic_activity" ->
            [err |-> "none",
             df |-> attach_economic_activity(table, files.economic_activity)]
      [] f = "households" -> attach_households(table, files.households)
      [] f = "building_type" ->
            attach_building_type(table, files.building_type)
      [] f = "building_age" -> attach_building_age(table, files.building_age)

Attached(f, table) ==
    \A i \in 1..Len(table) : OwnColumns(f) \subseteq DOMAIN table[i]

AttachInAnyOrder(f) ==
    /\ pc = "any_order"
    /\ err = "none"
    /\ ~Attached(f, df)
    /\ LET r == Apply(f, df, source)
       IN  /\ df' = r.df
           /\ err' = r.err
    /\ UNCHANGED <<pc, temp_dict, source, out>>

TypeRow(flats, all) ==
    [geography |-> "LSOA", band |-> "All", ecode |-> "L1",
     bungalow_total |-> Num(0), flat_mais_total |-> Num(flats),
     house_terraced_total |-> Num(0), house_semi_total |-> Num(0),
     house_detached_total |-> Num(0), all_properties |-> Num(all)]

AgeRow(lsoa) ==
    [geography |-> "LSOA", band |-> "All", ecode |-> lsoa,
     bp |-> [b \in BucketSet |->
                IF b = "bp_2009" THEN Num(1) ELSE Num(0)]]

\* the source files of the runs in any order: with and without repeated
\* keys, with and without a cell on which a section raises
OrderFiles ==
    [main : MainTables,
     climate : {<<>>, <<[lat |-> 51, long |-> 0, t |-> 10]>>},
     income : {<<>>, <<[MSOA |-> "M1", net_income |-> "28,000"],
                       [MSOA |-> "M1", net_income |-> "31,500"]>>},
     voting : {<<[LA |-> "A1", Green |-> 1, Total |-> 10]>>,
               <<[LA |-> "A1", Green |-> 1, Total |-> 10],
                 [LA |-> "A1", Green |-> 1, Total |-> 20]>>},
     economic_activity :
         {<<[LA |-> "A1", pct_economically_active |-> <<553, 10>>]>>},
     households :
         {<<[LSOA |-> "L1", household_size_code |-> 2, rooms_code |-> 4,
             Observation |-> Num(10)]>>,
          <<[LSOA |-> "L1", household_size_code |-> 2, rooms_code |-> 4,
             Observation |-> Text("-")]>>},
     building_type : {<<TypeRow(1, 2)>>, <<TypeRow(1, 0)>>},
     building_age : {<<AgeRow("L1")>>, <<AgeRow("L1"), AgeRow("L1")>>}]

InitOrder ==
    /\ pc = "any_order"
    /\ source \in OrderFiles
    /\ df = source.main
    /\ temp_dict = build_temp_dict(source.climate)
    /\ err = "none"
    /\ out = <<>>

NextOrder == \E f \in Features : AttachInAnyOrder(f)

SpecOrder == InitOrder /\ [][NextOrder]_vars

\* the table the script's own order of attaches gives, and the exception
\* of the first section that raises
RECURSIVE ScriptResult(_, _)
ScriptResult(files, n) ==
    IF n = 0 THEN [err |-> "none", df |-> files.main]
    ELSE LET before == ScriptResult(files, n - 1)
         IN  IF before.err # "none" THEN before
             ELSE Apply(ScriptOrder[n], before.df, files)

(***************************************************************************)
(* Claims on the nearest-measurement lookup                                *)
(***************************************************************************)
\* the observation the lookup is specified to answer with: the first one,
\* in the order of the climate file, among those nearest to this_point
FirstNearest(observations, this_point) ==
    LET dist(i) == geodesic(this_point,
                            <<observations[i].lat, observations[i].long>>)
    IN  CHOOSE i \in 1..Len(observations) :
            /\ \A j \in 1..Len(observations) : dist(i) <= dist(j)
            /\ \A j \in 1..(i - 1) : dist(j) > dist(i)

AllPositive(observations) ==
    \A k \in 1..Len(observations) : observations[k].t > 0

\* C2: for every non-empty climate file of valid observations and every
\* query point, the temperature attached to an area is the value of the
\* first observation, in file order, among those at least geodesic distance
\* from the area, also when several observations share one location.
C2_FirstNearestValue ==
    (pc = "energy_cost" /\ source # <<>> /\ AllPositive(source))
        => \A i \in 1..Len(df) :
              df[i].temperature =
                  source[FirstNearest(source, df[i].coords)].t

\* C3: no observation with a value that is not strictly positive is kept
\* in the dictionary, and every temperature attached to an area is the
\* value of an observation with value > 0.
C3_OnlyPositiveTemperatures ==
    /\ \A k \in 1..Len(temp_dict) : temp_dict[k][2] > 0
    /\ pc = "energy_cost"
          => \A i \in 1..Len(df) :
                /\ df[i].temperature > 0
                /\ \E k \in 1..Len(source) :
                      /\ source[k].t = df[i].temperature
                      /\ source[k].t > 0

\* C3's case: the lookup answered although an invalid observation lies
\* strictly nearer to the area than every valid one
C3_Witness ==
    /\ pc = "energy_cost"
    /\ df # <<>>
    /\ \E k \in 1..Len(source) :
          /\ source[k].t <= 0
          /\ \A j \in 1..Len(source) :
                source[j].t > 0 =>
                    geodesic(df[1].coords, <<source[k].lat, source[k].long>>)
                      < geodesic(df[1].coords, <<source[j].lat, source[j].long>>)

\* C10: when the dictionary of measurements is empty (no observation is
\* valid) the lookup of an area ends the run with an error: the section
\* raises, no area is given a temperature and nothing is written.
C10_EmptyIndexFails ==
    [][(pc = "temperature" /\ err = "none" /\ temp_dict = <<>> /\ df # <<>>)
          => /\ err' = "ValueError"
             /\ pc' = "temperature"
             /\ out' = <<>>
             /\ \A i \in 1..Len(df') : "temperature" \notin DOMAIN df'[i]]_vars

\* C10's case: a climate file with observations, all of them invalid, and
\* an area that was looked up
C10_Witness ==
    /\ pc = "temperature"
    /\ err = "ValueError"
    /\ df # <<>>
    /\ source # <<>>
    /\ \A k \in 1..Len(source) : source[k].t <= 0

(***************************************************************************)
(* Claims on the joins                                                     *)
(***************************************************************************)
LsoaColumn(table) == [i \in 1..Len(table) |-> table[i].LSOA]

\* C1: once the main dataset is loaded every section leaves the table with
\* the same LSOA codes, one row each, in the same rows: no attach drops a
\* row of the main dataset and none duplicates one, also when a source
\* table holds a key more than once; the file written has as many lines.
C1_RowsPreserved ==
    [][pc # "main"
          => /\ LsoaColumn(df') = LsoaColumn(df)
             /\ out' # <<>> => Len(out'[1].lines) = Len(df)]_vars

HasColumn(table, c) == \A i \in 1..Len(table) : c \in DOMAIN table[i]

SameWithinParent(table, parent, feature) ==
    \A i, j \in 1..Len(table) :
        table[i][parent] = table[j][parent]
            => table[i][feature] = table[j][feature]

\* C9: once net_income (by MSOA), politically_green (by LA) or
\* pct_economically_active (by LA) is attached, any two rows of the table
\* with the same parent code hold the same value of that feature.
C9_BroadcastIdentical ==
    /\ HasColumn(df, "net_income")
          => SameWithinParent(df, "MSOA", "net_income")
    /\ HasColumn(df, "politically_green")
          => SameWithinParent(df, "LA", "politically_green")
    /\ HasColumn(df, "pct_economically_active")
          => SameWithinParent(df, "LA", "pct_economically_active")

(***************************************************************************)
(* Claims on the categorical aggregations                                  *)
(***************************************************************************)
\* a count cell with a placeholder taken as zero
ZeroCount(c) == IF IsNum(c) THEN c[2] ELSE 0

RowsOf(table, lsoa) == SelectSeq(table, LAMBDA r : r.LSOA = lsoa)

ObservationTotal(rows) ==
    SumSeq([i \in 1..Len(rows) |-> ZeroCount(rows[i].Observation)])

TypeTotal(row) ==
    SumSeq([k \in 1..Len(TypeColumns) |-> ZeroCount(row[TypeColumns[k]])])

BucketTotal(row) ==
    SumSeq([k \in 1..Len(Buckets) |-> ZeroCount(row.bp[Buckets[k]])])

\* C4: an area whose total count is zero in the household table, in the
\* building-type table (all_properties = 0) or in the build-period table
\* gets a missing value for the feature: no section raises a division
\* error, and the feature is neither zero nor infinite.
C4_ZeroTotalIsMissing ==
    /\ err # "ZeroDivisionError"
    /\ (pc = "building_type" /\ err = "none")
          => \A i \in 1..Len(df) :
                (/\ RowsOf(source, df[i].LSOA) # <<>>
                 /\ ObservationTotal(RowsOf(source, df[i].LSOA)) = 0)
                    => df[i].home_size = NaN /\ df[i].pct_home_occupancy = NaN
    /\ (pc = "building_age" /\ err = "none")
          => \A i \in 1..Len(df) : \A k \in 1..Len(source) :
                (/\ source[k].geography = "LSOA" /\ source[k].band = "All"
                 /\ source[k].ecode = df[i].LSOA
                 /\ ZeroCount(source[k].all_properties) = 0)
                    => df[i].home_exposed_surfaces = NaN
    /\ (pc = "write" /\ err = "none")
          => \A i \in 1..Len(df) : \A k \in 1..Len(source) :
                (/\ source[k].geography = "LSOA" /\ source[k].band = "All"
                 /\ source[k].ecode = df[i].LSOA
                 /\ BucketTotal(source[k]) = 0)
                    => df[i].home_age = NaN

\* the sum of f over the set S of indices, in no particular order
RECURSIVE SumOver(_, _)
SumOver(S, f) ==
    IF S = {} THEN 0
    ELSE LET x == CHOOSE y \in S : TRUE IN f[x] + SumOver(S \ {x}, f)

RowOrders(n) ==
    {p \in [1..n -> 1..n] : \A i, j \in 1..n : p[i] = p[j] => i = j}

\* C5: for every area with a positive total in the household table,
\* home_size = sum(rooms x Observation) / sum(Observation) and
\* pct_home_occupancy = sum((household size / rooms) x Observation) /
\* sum(Observation), the sums over all rows of the area; and the two
\* features are the same for every order of the rows of the table.
C5_WeightedAverages ==
    (pc = "building_type" /\ err = "none")
        => /\ \A i \in 1..Len(df) :
                LET idx == {k \in 1..Len(source) : source[k].LSOA = df[i].LSOA}
                    obs == SumOver(idx, [k \in idx |-> source[k].Observation[2]])
                    rooms == SumOver(idx, [k \in idx |->
                                source[k].rooms_code * source[k].Observation[2]])
                    \* sixtieths: 60 is a multiple of every room code 1..6
                    occ == SumOver(idx, [k \in idx |->
                                (60 \div source[k].rooms_code)
                                  * source[k].household_size_code
                                  * source[k].Observation[2]])
                IN  obs > 0
                      => /\ IsFinite(df[i].home_size)
                         /\ RatEq(df[i].home_size, <<rooms, obs>>)
                         /\ IsFinite(df[i].pct_home_occupancy)
                         /\ RatEq(df[i].pct_home_occupancy, <<occ, 60 * obs>>)
           /\ \A p \in RowOrders(Len(source)) :
                 totals([k \in 1..Len(source) |-> source[p[k]]])
                     = totals(source)

\* C5's case: the rows (rooms 4, Observation 10) and (rooms 3, Observation
\* 5) of one area give home_size 55/15
C5_Witness ==
    /\ pc = "building_type"
    /\ err = "none"
    /\ Len(source) = 2
    /\ source[1].LSOA = "L1" /\ source[2].LSOA = "L1"
    /\ source[1].rooms_code = 4 /\ source[1].Observation = Num(10)
    /\ source[2].rooms_code = 3 /\ source[2].Observation = Num(5)
    /\ source[1].household_size_code = 2
    /\ df[1].home_size = <<11, 3>>
    /\ RatEq(df[1].home_size, <<55, 15>>)

KeptRows(table, lsoa) ==
    SelectSeq(table, LAMBDA r : /\ r.geography = "LSOA" /\ r.band = "All"
                                /\ r.ecode = lsoa)

\* C6: for every LSOA row of the building-type table, home_exposed_surfaces
\* is sum(surfaces(type) x count(type)) over the five building types
\* divided by the sum of the same five counts, and so lies between 2 and 5
\* when a count is positive.
C6_AverageOverFiveTypes ==
    (pc = "building_age" /\ err = "none")
        => \A i \in 1..Len(df) :
              LET rows == KeptRows(source, df[i].LSOA)
              IN  (Len(rows) = 1 /\ TypeTotal(rows[1]) > 0)
                    => /\ RatEq(df[i].home_exposed_surfaces,
                                <<SumSeq([k \in 1..Len(TypeColumns) |->
                                      ZeroCount(rows[1][TypeColumns[k]])
                                        * exposed_surfaces_per_type[TypeColumns[k]]]),
                                  TypeTotal(rows[1])>>)
                       /\ RatLeq(<<2, 1>>, df[i].home_exposed_surfaces)
                       /\ RatLeq(df[i].home_exposed_surfaces, <<5, 1>>)

\* the representative year the claim gives a bucket
ClaimedYear(b) ==
    IF b \in {"bp_pre_1900", "bp_unkw"} THEN 1900 ELSE build_dates[b]

\* C7: for every LSOA row of the build-period table with a positive total,
\* home_age = 2021 - sum(year(bucket) x count(bucket)) / sum(count(bucket))
\* over all buckets, pre-1900 and unknown both at 1900, and so lies between
\* 0 and 121.
C7_HomeAge ==
    (pc = "write" /\ err = "none")
        => \A i \in 1..Len(df) :
              LET rows == KeptRows(source, df[i].LSOA)
              IN  (Len(rows) = 1 /\ BucketTotal(rows[1]) > 0)
                    => /\ IsFinite(df[i].home_age)
                       /\ RatEq(df[i].home_age,
                                <<2021 * BucketTotal(rows[1])
                                    - SumSeq([k \in 1..Len(Buckets) |->
                                          ZeroCount(rows[1].bp[Buckets[k]])
                                            * ClaimedYear(Buckets[k])]),
                                  BucketTotal(rows[1])>>)
                       /\ RatLeq(<<0, 1>>, df[i].home_age)
                       /\ RatLeq(df[i].home_age, <<121, 1>>)

\* C7's case: a row with a positive count in the pre-1900 bucket and in the
\* unknown bucket, attached to its area
C7_Witness ==
    /\ pc = "write"
    /\ err = "none"
    /\ Len(source) = 1
    /\ IsNum(source[1].bp["bp_pre_1900"]) /\ source[1].bp["bp_pre_1900"][2] > 0
    /\ IsNum(source[1].bp["bp_unkw"]) /\ source[1].bp["bp_unkw"][2] > 0
    /\ df[1].LSOA = source[1].ecode
    /\ df[1].home_age = <<121, 1>>

\* the exceptions a cell of a count table can make a section raise
AggregationErrors == {"TypeError", "ValueError", "ZeroDivisionError"}

\* C8: in the household table (Observation), the building-type table (the
\* five counts and all_properties) and the build-period table a cell that
\* holds a placeholder instead of a number is counted as zero, and the run
\* does not fail on it.
C8_PlaceholderIsZero ==
    /\ (pc = "households" /\ err \in AggregationErrors)
          => \A k \in 1..Len(source) : IsNum(source[k].Observation)
    /\ (pc = "building_type" /\ err \in AggregationErrors)
          => \A k \in 1..Len(source) :
                /\ IsNum(source[k].all_properties)
                /\ \A c \in 1..Len(TypeColumns) : IsNum(source[k][TypeColumns[c]])
    /\ (pc = "building_age" /\ err \in AggregationErrors)
          => \A k \in 1..Len(source) : \A b \in BucketSet :
                IsNum(source[k].bp[b])
    /\ (pc = "write" /\ err = "none")
          => \A i \in 1..Len(df) :
                LET rows == KeptRows(source, df[i].LSOA)
                IN  (Len(rows) = 1 /\ BucketTotal(rows[1]) > 0)
                      => RatEq(df[i].home_age,
                               <<2021 * BucketTotal(rows[1])
                                   - SumSeq([k \in 1..Len(Buckets) |->
                                         ZeroCount(rows[1].bp[Buckets[k]])
                                           * build_dates[Buckets[k]]]),
                                 BucketTotal(rows[1])>>)

(***************************************************************************)
(* Claims on the written table                                             *)
(***************************************************************************)
\* the LSOA cells of the lines of a written file
WrittenLsoas(file) ==
    LET k == CHOOSE c \in 1..Len(file.header) : file.header[c] = "LSOA"
    IN  [i \in 1..Len(file.lines) |-> file.lines[i][k]]

\* C11: a file is written only when the final table holds no LSOA key
\* twice (one row per LSOA of the main dataset) and every declared column;
\* otherwise the run ends in a SchemaViolation error and writes nothing.
C11_WriteIsValidated ==
    /\ err # "none" => out = <<>>
    /\ out # <<>>
          => /\ \A i, j \in 1..Len(out[1].lines) :
                   WrittenLsoas(out[1])[i] = WrittenLsoas(out[1])[j] => i = j
             /\ out[1].header = final_columns

\* the thirteen columns of the output, in the order of the claim
DeclaredColumns ==
    <<"LA", "MSOA", "LSOA", "temperature", "energy_cost", "net_income",
      "politically_green", "pct_economically_active", "home_size",
      "pct_home_occupancy", "home_exposed_surfaces", "home_age",
      "energy_consumption_per_person">>

WorkingColumns ==
    {"LA_name", "MSOA_name", "LSOA_name", "Latitude", "Longitude", "coords",
     "elec_consumption", "total_consumption", "pct_electric"}

\* C14: the write step leaves exactly the thirteen declared columns, in
\* the declared order, in the file and in the table; no working column is
\* left; the rows are the same rows and every kept cell has the value it
\* had before the projection.
C14_ProjectionKeepsDeclaredColumns ==
    [][(pc = "write" /\ err = "none")
          => /\ out' # <<>>
             /\ out'[1].header = DeclaredColumns
             /\ Len(out'[1].lines) = Len(df)
             /\ Len(df') = Len(df)
             /\ \A i \in 1..Len(df) :
                   /\ DOMAIN df'[i]
                        = {DeclaredColumns[k] : k \in 1..Len(DeclaredColumns)}
                   /\ DOMAIN df'[i] \cap WorkingColumns = {}
                   /\ WorkingColumns \subseteq DOMAIN df[i]
                   /\ \A k \in 1..Len(DeclaredColumns) :
                         /\ df'[i][DeclaredColumns[k]] = df[i][DeclaredColumns[k]]
                         /\ out'[1].lines[i][k] = df[i][DeclaredColumns[k]]]_vars

\* C14's case: a table with rows was projected and written
C14_Witness ==
    /\ pc = "done"
    /\ out # <<>>
    /\ Len(out[1].lines) > 0
    /\ df # <<>>
    /\ "coords" \notin DOMAIN df[1]

\* C15: for every local authority of the voting data (one row for it),
\* politically_green is true exactly when Green / Total is greater than
\* 10%, and false otherwise, also when the share is exactly 10%.
C15_GreenAboveThreshold ==
    (pc = "economic_activity" /\ err = "none")
        => \A i \in 1..Len(df) :
              LET rows == SelectSeq(source, LAMBDA r : r.LA = df[i].LA)
              IN  (Len(rows) = 1 /\ rows[1].Total > 0)
                    => (df[i].politically_green = "True"
                          <=> 10 * rows[1].Green > rows[1].Total)
                       /\ df[i].politically_green \in {"True", "False"}

FeatureColumns ==
    {"temperature", "energy_cost", "net_income", "politically_green",
     "pct_economically_active", "home_size", "pct_home_occupancy",
     "home_exposed_surfaces", "home_age"}

\* C12: a run in which a source file is absent or lacks an expected column
\* stops there with a failure and never writes the output; the output is
\* written only by the last section, once every feature is attached.
C12_NoWriteAfterLoadFailure ==
    /\ [](err # "none" => out = <<>>)
    /\ [](out # <<>> => pc = "done" /\ err = "none")
    /\ [][/\ err = "none"
          /\ out' # out
                => /\ pc = "write"
                   /\ \A c \in FeatureColumns : HasColumn(df, c)]_vars

\* C12's case: the file of the last source is absent or lacks a column,
\* every earlier feature being attached, and nothing is written
C12_Witness ==
    /\ pc = "building_age"
    /\ err \in {"FileNotFoundError", "KeyError", "AttributeError"}
    /\ df # <<>>
    /\ HasColumn(df, "home_exposed_surfaces")
    /\ out = <<>>

(***************************************************************************)
(* Claim on the order of the attaches                                      *)
(***************************************************************************)
RowSet(table) == {table[i] : i \in 1..Len(table)}

\* the cells feature f gives each LSOA
OwnPart(table, f) ==
    {[c \in OwnColumns(f) \cup {"LSOA"} |-> table[i][c]] : i \in 1..Len(table)}

\* C13: in whatever order the features are attached, each attach adds only
\* its own columns and leaves every cell already in the table as it was;
\* what a feature gives an LSOA is what its section gives on the main
\* dataset alone, whichever features were attached before it; and once all
\* are attached the table has the rows, with the values, of the table the
\* script's order gives.  An order fails only if the script's order fails.
C13_OrderIndependent ==
    /\ [](\A f \in Features :
             (Attached(f, df) /\ df # <<>>)
                 => OwnPart(df, f) = OwnPart(Apply(f, source.main, source).df, f))
    /\ []((err = "none" /\ \A f \in Features : Attached(f, df))
             => /\ ScriptResult(source, Len(ScriptOrder)).err = "none"
                /\ RowSet(df) = RowSet(ScriptResult(source, Len(ScriptOrder)).df)
                /\ Len(df) = Len(ScriptResult(source, Len(ScriptOrder)).df))
    /\ [](err # "none" => ScriptResult(source, Len(ScriptOrder)).err # "none")
    /\ [][\E f \in Features :
             \A i \in 1..Len(df') :
                /\ \E j \in 1..Len(df) :
                      /\ DOMAIN df'[i] \ DOMAIN df[j] \subseteq OwnColumns(f)
                      /\ \A c \in DOMAIN df[j] :
                            c \in DOMAIN df'[i] /\ df'[i][c] = df[j][c]]_vars

\* C13's case: every feature is attached, in an order other than the
\* script's: the rows come in another order than the script gives them
C13_Witness ==
    /\ pc = "any_order"
    /\ err = "none"
    /\ \A f \in Features : Attached(f, df)
    /\ Len(df) > Len(source.main)
    /\ df # ScriptResult(source, Len(ScriptOrder)).df

====
